---- MODULE Spec2Model ----
(***************************************************************************)
(* The authenticated request pipeline of rusty-bybit: client construction  *)
(* (src/src/client.rs), the signer (src/src/auth.rs) and the envelope      *)
(* decoding of responses (src/src/types.rs, ApiResponse<T>).               *)
(*                                                                         *)
(* Text (Rust String / &str / bytes) is a sequence of one-character        *)
(* strings, so that formatting, URL-encoding and JSON serialization are    *)
(* computed character by character.  Option<X> is a sequence of length 0   *)
(* (None) or 1 (Some).                                                     *)
(***************************************************************************)
EXTENDS Integers, Sequences, FiniteSets

VARIABLES client, now, calls, signer, order, wire

vars == <<client, now, calls, signer, order, wire>>

(* ---------------------------------------------------------------- bounds *)

\* Query slices passed to get() hold at most MaxQueryLen pairs.
MaxQueryLen == 2

\* The wall clock is read in the window MaxTime-1 .. MaxTime (it crosses a
\* change in the number of decimal digits).
MaxTime == 10

(* --------------------------------------------------------------- options *)

None == <<>>

Some(x) == <<x>>

IsSome(o) == Len(o) = 1

IsNone(o) == Len(o) = 0

Unwrap(o) == o[1]

(* ------------------------------------------------------------------ text *)

RECURSIVE Concat(_)
\* format!("{}{}..."): the concatenation of a sequence of texts
Concat(parts) ==
    IF parts = <<>> THEN <<>> ELSE Head(parts) \o Concat(Tail(parts))

Digit(d) ==
    CASE d = 0 -> "0" [] d = 1 -> "1" [] d = 2 -> "2" [] d = 3 -> "3"
      [] d = 4 -> "4" [] d = 5 -> "5" [] d = 6 -> "6" [] d = 7 -> "7"
      [] d = 8 -> "8" [] d = 9 -> "9"

RECURSIVE NatToString(_)
NatToString(n) ==
    IF n < 10 THEN <<Digit(n)>>
    ELSE NatToString(n \div 10) \o <<Digit(n % 10)>>

\* i64::to_string / u64::to_string / Display for integers: decimal digits,
\* with a leading minus sign for a negative number
to_string(n) ==
    IF n < 0 THEN <<"-">> \o NatToString(0 - n) ELSE NatToString(n)

(* ------------------------------------------------------------- constants *)

RECV_WINDOW == 5000

TESTNET_URL ==
    <<"h","t","t","p","s",":","/","/","a","p","i","-","t","e","s","t","n","e","t",
      ".","b","y","b","i","t",".","c","o","m">>

MAINNET_URL ==
    <<"h","t","t","p","s",":","/","/","a","p","i",".","b","y","b","i","t",".","c","o","m">>

V5_MARKET_TIME ==
    <<"/","v","5","/","m","a","r","k","e","t","/","t","i","m","e">>

V5_ORDER_CREATE ==
    <<"/","v","5","/","o","r","d","e","r","/","c","r","e","a","t","e">>

(* ------------------------------------------------------------------ JSON *)
(* serde_json::Value as a tree.  An object is the sequence of its          *)
(* <<key, value>> members in the order the map iterates them.  Numbers are *)
(* integers.                                                               *)

JNull == [t |-> "null"]

JNum(n) == [t |-> "num", n |-> n]

JStr(s) == [t |-> "str", s |-> s]

JBool(b) == [t |-> "bool", b |-> b]

JObj(m) == [t |-> "obj", m |-> m]

RECURSIVE JsonEscape(_)
\* serde_json's string escaping of the characters the model uses
JsonEscape(s) ==
    IF s = <<>> THEN <<>>
    ELSE (CASE Head(s) = "\"" -> <<"\\", "\"">>
            [] Head(s) = "\\" -> <<"\\", "\\">>
            [] OTHER -> <<Head(s)>>) \o JsonEscape(Tail(s))

RECURSIVE JsonWrite(_), JsonWriteMembers(_)
\* serde_json's compact serializer
JsonWrite(v) ==
    CASE v.t = "null" -> <<"n","u","l","l">>
      [] v.t = "num" -> to_string(v.n)
      [] v.t = "str" -> <<"\"">> \o JsonEscape(v.s) \o <<"\"">>
      [] v.t = "bool" -> IF v.b THEN <<"t","r","u","e">> ELSE <<"f","a","l","s","e">>
      [] v.t = "obj" -> <<"{">> \o JsonWriteMembers(v.m) \o <<"}">>

JsonWriteMembers(m) ==
    IF m = <<>> THEN <<>>
    ELSE <<"\"">> \o JsonEscape(m[1][1]) \o <<"\"", ":">> \o JsonWrite(m[1][2])
         \o (IF Len(m) > 1 THEN <<",">> \o JsonWriteMembers(Tail(m)) ELSE <<>>)

\* serde_json::to_vec(&Value): serializing a Value never fails
serde_json_to_vec(v) == [ok |-> TRUE, value |-> JsonWrite(v)]

\* serde_json_to_string returning an error
serde_json_to_string_Failing(v) == [ok |-> FALSE, error |-> "ser"]

\* serde_json::to_string(&Value): to_vec, then the bytes taken as a String
serde_json_to_string(v) == serde_json_to_vec(v)

(* --------------------------------------------------------- URL encoding *)

\* the characters form_urlencoded leaves as they are: ASCII alphanumerics
\* and * - . _
Unreserved ==
    {"a","b","c","d","e","f","g","h","i","j","k","l","m","n","o","p","q","r","s",
     "t","u","v","w","x","y","z","A","B","C","D","E","F","G","H","I","J","K","L",
     "M","N","O","P","Q","R","S","T","U","V","W","X","Y","Z","0","1","2","3","4",
     "5","6","7","8","9","*","-",".","_"}

\* form_urlencoded::byte_serialize of one character
ByteSerialize(ch) ==
    CASE ch \in Unreserved -> <<ch>>
      [] ch = " " -> <<"+">>
      [] ch = "&" -> <<"%","2","6">>
      [] ch = "=" -> <<"%","3","D">>
      [] ch = "+" -> <<"%","2","B">>
      [] ch = "/" -> <<"%","2","F">>
      [] ch = "%" -> <<"%","2","5">>

RECURSIVE FormEncode(_)
FormEncode(s) ==
    IF s = <<>> THEN <<>> ELSE ByteSerialize(Head(s)) \o FormEncode(Tail(s))

RECURSIVE AppendPairs(_, _)
\* form_urlencoded::Serializer::append_pair for each pair of q in order,
\* onto the string acc
AppendPairs(acc, q) ==
    IF q = <<>> THEN acc
    ELSE AppendPairs(
           acc \o (IF acc = <<>> THEN <<>> ELSE <<"&">>)
               \o FormEncode(q[1][1]) \o <<"=">> \o FormEncode(q[1][2]),
           Tail(q))

RECURSIVE JoinRaw(_, _)
JoinRaw(acc, q) ==
    IF q = <<>> THEN acc
    ELSE JoinRaw(acc \o (IF acc = <<>> THEN <<>> ELSE <<"&">>)
                     \o q[1][1] \o <<"=">> \o q[1][2],
                 Tail(q))

\* serde_urlencoded_to_string without the percent-encoding
serde_urlencoded_to_string_Raw(q) == [ok |-> TRUE, value |-> JoinRaw(<<>>, q)]

\* serde_urlencoded::to_string(&[(&str, &str)])
serde_urlencoded_to_string(q) == [ok |-> TRUE, value |-> AppendPairs(<<>>, q)]

\* Result<String, _>::unwrap_or_default
unwrap_or_default(r) == IF r.ok THEN r.value ELSE <<>>

(* ---------------------------------------------------------------- signer *)

\* the byte 0
NUL == "NUL"

\* Sha256: 64-byte blocks, 32-byte digests
SHA256_BLOCK_SIZE == 64

SHA256_OUTPUT_SIZE == 32

\* Hmac::new_from_slice: a key no longer than a block is padded with zero
\* bytes to the block size (a longer key, which the model has none of, is
\* hashed first); no key length is rejected
new_from_slice(key) ==
    IF Len(key) <= SHA256_BLOCK_SIZE
    THEN key \o [i \in 1..(SHA256_BLOCK_SIZE - Len(key)) |-> NUL]
    ELSE key

\* Hmac<Sha256>::new_from_slice(key), update(msg), finalize(): the digest is
\* kept symbolic, as the padded key and the message it is computed from
\* (two digests are equal exactly when these are: no collisions)
HmacSha256(key, msg) == [hmac_key |-> new_from_slice(key), hmac_msg |-> msg]

\* hex::encode of a digest, kept symbolic
hex_encode(digest) == [hex_of |-> digest]

\* hex_encode_bytes with the upper-case digits
hex_encode_bytes_Upper(bytes) ==
    Concat([i \in 1..Len(bytes) |->
        <<(<<"0","1","2","3","4","5","6","7","8","9","A","B","C","D","E","F">>)[(bytes[i] \div 16) + 1],
          (<<"0","1","2","3","4","5","6","7","8","9","A","B","C","D","E","F">>)[(bytes[i] % 16) + 1]>>])

\* hex::encode of the bytes of a digest: two lower-case digits per byte,
\* the high half first
hex_encode_bytes(bytes) ==
    Concat([i \in 1..Len(bytes) |->
        <<(<<"0","1","2","3","4","5","6","7","8","9","a","b","c","d","e","f">>)[(bytes[i] \div 16) + 1],
          (<<"0","1","2","3","4","5","6","7","8","9","a","b","c","d","e","f">>)[(bytes[i] % 16) + 1]>>])

\* sign_str with the api_key put first
sign_str_KeyFirst(timestamp, api_key, recv_window, payload) ==
    Concat(<<api_key, to_string(timestamp), to_string(recv_window), payload>>)

\* sign_str without the recv_window
sign_str_NoWindow(timestamp, api_key, recv_window, payload) ==
    Concat(<<to_string(timestamp), api_key, payload>>)

\* sign_str without the payload
sign_str_NoPayload(timestamp, api_key, recv_window, payload) ==
    Concat(<<to_string(timestamp), api_key, to_string(recv_window)>>)

\* the canonical message of generate_signature
sign_str(timestamp, api_key, recv_window, payload) ==
    Concat(<<to_string(timestamp), api_key, to_string(recv_window), payload>>)

\* generate_signature on a MAC that still holds the message of the call
\* before
generate_signature_Reused(timestamp, api_key, recv_window, payload, secret) ==
    hex_encode(HmacSha256(secret,
        (IF Len(signer.cur) = 1 THEN signer.cur[1].signature.hex_of.hmac_msg ELSE <<>>)
        \o sign_str(timestamp, api_key, recv_window, payload)))

generate_signature(timestamp, api_key, recv_window, payload, secret) ==
    hex_encode(HmacSha256(secret, sign_str(timestamp, api_key, recv_window, payload)))

Credentials_new(api_key, api_secret) ==
    [api_key |-> api_key, api_secret |-> api_secret]

(* ---------------------------------------------------------------- client *)

BybitClient_new(base_url) == [base_url |-> base_url, credentials |-> None]

\* with_credentials storing the secret as the key and the key as the secret
with_credentials_Swapped(self, api_key, api_secret) ==
    [self EXCEPT !.credentials = Some(Credentials_new(api_secret, api_key))]

with_credentials(self, api_key, api_secret) ==
    [self EXCEPT !.credentials = Some(Credentials_new(api_key, api_secret))]

testnet == BybitClient_new(TESTNET_URL)

mainnet == BybitClient_new(MAINNET_URL)

(* --------------------------------------------------------------- headers *)

\* bytes HeaderValue::try_from(&str) rejects: below 32 (except tab), and 127
ControlChars == {"\n", "\r"}

\* HeaderValue_try_from accepting every character
HeaderValue_try_from_Lenient(s) == [ok |-> TRUE, value |-> s]

\* HeaderValue_try_from rejecting the empty string too
HeaderValue_try_from_NonEmpty(s) ==
    [ok |-> s # <<>> /\ \A i \in 1..Len(s) : s[i] \notin ControlChars, value |-> s]

\* HeaderValue::try_from(&str)
HeaderValue_try_from(s) ==
    [ok |-> \A i \in 1..Len(s) : s[i] \notin ControlChars, value |-> s]

\* HeaderValue::try_from of a hex string: hex digits are always accepted
HeaderValue_try_from_hex(h) == [ok |-> TRUE, value |-> h]

APPLICATION_JSON ==
    <<"a","p","p","l","i","c","a","t","i","o","n","/","j","s","o","n">>

\* HeaderMap::new()
HeaderMap_new == <<>>

\* HeaderMap::insert
HeaderMap_insert(h, name, value) ==
    [n \in (DOMAIN h) \cup {name} |-> IF n = name THEN value ELSE h[n]]

AuthHeaderNames ==
    {"X-BAPI-API-KEY", "X-BAPI-TIMESTAMP", "X-BAPI-SIGN", "X-BAPI-RECV-WINDOW"}

\* SignedPayload with the two methods' payloads exchanged
SignedPayload_Exchanged(method, query, body) ==
    CASE method = "POST" ->
           IF IsSome(query)
           THEN unwrap_or_default(serde_urlencoded_to_string(Unwrap(query)))
           ELSE <<>>
      [] method = "GET" ->
           IF IsSome(body)
           THEN unwrap_or_default(serde_json_to_string(Unwrap(body)))
           ELSE <<>>
      [] OTHER -> <<>>

\* the payload build_auth_headers signs
SignedPayload(method, query, body) ==
    CASE method = "GET" ->
           IF IsSome(query)
           THEN unwrap_or_default(serde_urlencoded_to_string(Unwrap(query)))
           ELSE <<>>
      [] method = "POST" ->
           IF IsSome(body)
           THEN unwrap_or_default(serde_json_to_string(Unwrap(body)))
           ELSE <<>>
      [] OTHER -> <<>>

\* AuthHeaderMap without the insert of X-BAPI-SIGN
AuthHeaderMap_NoSign(key, ts, sig, rw) ==
    HeaderMap_insert(
      HeaderMap_insert(
        HeaderMap_insert(
          HeaderMap_insert(HeaderMap_new, "X-BAPI-API-KEY", key),
          "X-BAPI-TIMESTAMP", ts),
        "X-BAPI-RECV-WINDOW", rw),
      "Content-Type", APPLICATION_JSON)

\* AuthHeaderMap with the timestamp and the receive window exchanged
AuthHeaderMap_Exchanged(key, ts, sig, rw) ==
    HeaderMap_insert(
      HeaderMap_insert(
        HeaderMap_insert(
          HeaderMap_insert(
            HeaderMap_insert(HeaderMap_new, "X-BAPI-API-KEY", key),
            "X-BAPI-TIMESTAMP", rw),
          "X-BAPI-SIGN", sig),
        "X-BAPI-RECV-WINDOW", ts),
      "Content-Type", APPLICATION_JSON)

\* the five headers.insert calls of build_auth_headers, on the header values
\* of the API key, the timestamp, the signature and the receive window
AuthHeaderMap(key, ts, sig, rw) ==
    HeaderMap_insert(
      HeaderMap_insert(
        HeaderMap_insert(
          HeaderMap_insert(
            HeaderMap_insert(HeaderMap_new, "X-BAPI-API-KEY", key),
            "X-BAPI-TIMESTAMP", ts),
          "X-BAPI-SIGN", sig),
        "X-BAPI-RECV-WINDOW", rw),
      "Content-Type", APPLICATION_JSON)

\* build_auth_headers signing the path before the payload
build_auth_headers_SignsPath(method, path, query, body, credentials, timestamp) ==
    LET payload == path \o SignedPayload(method, query, body)
        signature == generate_signature(timestamp, credentials.api_key,
                                        RECV_WINDOW, payload,
                                        credentials.api_secret)
        signed == [timestamp |-> timestamp, api_key |-> credentials.api_key,
                   recv_window |-> RECV_WINDOW, payload |-> payload,
                   secret |-> credentials.api_secret, signature |-> signature]
        key == HeaderValue_try_from(credentials.api_key)
        ts == HeaderValue_try_from(to_string(timestamp))
        sig == HeaderValue_try_from_hex(signature)
        rw == HeaderValue_try_from(to_string(RECV_WINDOW))
    IN  IF key.ok /\ ts.ok /\ sig.ok /\ rw.ok
        THEN [ok |-> TRUE, signed |-> signed,
              headers |-> AuthHeaderMap(key.value, ts.value, sig.value, rw.value)]
        ELSE [ok |-> FALSE, signed |-> signed, headers |-> HeaderMap_new]

\* BybitClient::build_auth_headers, with the clock read as `timestamp`.
\* signed: the arguments and the result of its generate_signature call.
build_auth_headers(method, path, query, body, credentials, timestamp) ==
    LET payload == SignedPayload(method, query, body)
        signature == generate_signature(timestamp, credentials.api_key,
                                        RECV_WINDOW, payload,
                                        credentials.api_secret)
        signed == [timestamp |-> timestamp, api_key |-> credentials.api_key,
                   recv_window |-> RECV_WINDOW, payload |-> payload,
                   secret |-> credentials.api_secret, signature |-> signature]
        key == HeaderValue_try_from(credentials.api_key)
        ts == HeaderValue_try_from(to_string(timestamp))
        sig == HeaderValue_try_from_hex(signature)
        rw == HeaderValue_try_from(to_string(RECV_WINDOW))
    IN  IF key.ok /\ ts.ok /\ sig.ok /\ rw.ok
        THEN [ok |-> TRUE, signed |-> signed,
              headers |-> AuthHeaderMap(key.value, ts.value, sig.value, rw.value)]
        ELSE [ok |-> FALSE, signed |-> signed, headers |-> HeaderMap_new]

(* ------------------------------------------------------- request builder *)

HasPrefix(s, p) == Len(s) >= Len(p) /\ SubSeq(s, 1, Len(p)) = p

\* reqwest's IntoUrl for a &str: the text must parse as an absolute URL with
\* a host (the model's URLs are http(s) URLs or have no scheme at all)
IntoUrlOk(url) ==
    \E scheme \in {<<"h","t","t","p","s",":","/","/">>, <<"h","t","t","p",":","/","/">>} :
        /\ HasPrefix(url, scheme)
        /\ Len(url) > Len(scheme)
        /\ url[Len(scheme) + 1] # "/"

\* Client::request(method, url): a builder holding the request, or the error
\* of building it
RequestBuilder_new(method, url) ==
    [ok |-> IntoUrlOk(url), method |-> method, url |-> url, query |-> None,
     headers |-> HeaderMap_new, body |-> None]

\* RequestBuilder::query: appends the pairs to the URL's query; an empty
\* query is removed from the URL
RequestBuilder_query(builder, q) ==
    LET appended == AppendPairs(IF IsSome(builder.query) THEN Unwrap(builder.query) ELSE <<>>, q)
    IN  IF ~builder.ok THEN builder
        ELSE [builder EXCEPT !.query = IF appended = <<>> THEN None ELSE Some(appended)]

\* RequestBuilder::headers: every given header replaces the builder's
RequestBuilder_headers(builder, headers) ==
    IF ~builder.ok THEN builder
    ELSE [builder EXCEPT !.headers =
            [n \in (DOMAIN builder.headers) \cup (DOMAIN headers) |->
                IF n \in DOMAIN headers THEN headers[n] ELSE builder.headers[n]]]

\* RequestBuilder_json leaving the headers as they are
RequestBuilder_json_NoContentType(builder, b) ==
    IF ~builder.ok THEN builder
    ELSE IF ~serde_json_to_vec(b).ok THEN [builder EXCEPT !.ok = FALSE]
    ELSE [builder EXCEPT !.body = Some(serde_json_to_vec(b).value)]

\* RequestBuilder::json: the body is serde_json::to_vec of the value, and
\* Content-Type is set unless already present
RequestBuilder_json(builder, b) ==
    LET bytes == serde_json_to_vec(b)
    IN  IF ~builder.ok THEN builder
        ELSE IF ~bytes.ok THEN [builder EXCEPT !.ok = FALSE]
        ELSE [builder EXCEPT
                !.body = Some(bytes.value),
                !.headers = IF "Content-Type" \in DOMAIN builder.headers
                            THEN builder.headers
                            ELSE HeaderMap_insert(builder.headers, "Content-Type",
                                                  APPLICATION_JSON)]

(* ------------------------------------------------------ results, errors *)

Ok(x) == [ok |-> TRUE, value |-> x]

Err(e) == [ok |-> FALSE, error |-> e]

\* the variants of BybitError
BybitErrorKinds ==
    {"RequestError", "ApiError", "InvalidTimestamp", "SerializationError",
     "InvalidParameter", "AuthenticationError", "RateLimitExceeded",
     "InvalidEnumValue", "MissingRequiredField"}

RequestError == [kind |-> "RequestError"]

SerializationError == [kind |-> "SerializationError"]

\* the header failure mapped to AuthenticationError
InvalidParameter_AsAuthenticationError == [kind |-> "AuthenticationError"]

InvalidParameter == [kind |-> "InvalidParameter"]

ApiError(ret_code, ret_msg) ==
    [kind |-> "ApiError", ret_code |-> ret_code, ret_msg |-> ret_msg]

\* From_reqwest_Error turning the transport error into an API error
From_reqwest_Error_AsApiError == ApiError(0, <<>>)

\* From<reqwest::Error> for BybitError (#[from]): what the ? after send()
\* and text() returns
From_reqwest_Error == RequestError

(* ------------------------------------------------------ envelope decoding *)
(* The response text is either malformed (not JSON) or the JSON value it   *)
(* parses to; the decoding into the typed envelope is computed on the      *)
(* value.  Every JSON number of the model fits i32 and i64.                *)

Malformed == [json |-> FALSE]

JsonText(v) == [json |-> TRUE, v |-> v]

K_retCode == <<"r","e","t","C","o","d","e">>

K_retMsg == <<"r","e","t","M","s","g">>

K_result == <<"r","e","s","u","l","t">>

K_retExtInfo == <<"r","e","t","E","x","t","I","n","f","o">>

K_time == <<"t","i","m","e">>

K_timeSecond == <<"t","i","m","e","S","e","c","o","n","d">>

K_timeNano == <<"t","i","m","e","N","a","n","o">>

\* the values of the members of m named k, in order
Members(m, k) == SelectSeq(m, LAMBDA p : p[1] = k)

\* RequiredField with a missing member read as null
RequiredField_Lenient(m, k) ==
    IF Len(Members(m, k)) = 1 THEN Ok(Members(m, k)[1][2])
    ELSE IF Len(Members(m, k)) = 0 THEN Ok(JNull) ELSE Err("field")

\* a field of a derived Deserialize struct without #[serde(default)]: the
\* member must occur exactly once
RequiredField(m, k) ==
    IF Len(Members(m, k)) = 1 THEN Ok(Members(m, k)[1][2]) ELSE Err("field")

deserialize_String(v) == IF v.t = "str" THEN Ok(v.s) ELSE Err("type")

deserialize_int(v) == IF v.t = "num" THEN Ok(v.n) ELSE Err("type")

\* #[derive(Deserialize)] of ServerTime
deserialize_ServerTime(v) ==
    IF v.t # "obj" THEN Err("type")
    ELSE LET sec == RequiredField(v.m, K_timeSecond)
             nano == RequiredField(v.m, K_timeNano)
         IN  IF sec.ok /\ nano.ok
                /\ deserialize_String(sec.value).ok
                /\ deserialize_String(nano.value).ok
             THEN Ok([time_second |-> deserialize_String(sec.value).value,
                      time_nano |-> deserialize_String(nano.value).value])
             ELSE Err("field")

\* the result types T of the model: ServerTime, and serde_json::Value, which
\* accepts every JSON value
ResultTypes == {"ServerTime", "Value"}

deserialize_T(T, v) ==
    CASE T = "ServerTime" -> deserialize_ServerTime(v)
      [] T = "Value" -> Ok(v)

\* #[derive(Deserialize)] of ApiResponse<T>: retExtInfo has a default, the
\* other four fields are required
deserialize_ApiResponse(T, v) ==
    IF v.t # "obj" THEN Err("type")
    ELSE LET code == RequiredField(v.m, K_retCode)
             msg == RequiredField(v.m, K_retMsg)
             res == RequiredField(v.m, K_result)
             ext == Members(v.m, K_retExtInfo)
             time == RequiredField(v.m, K_time)
         IN  IF /\ code.ok /\ deserialize_int(code.value).ok
                /\ msg.ok /\ deserialize_String(msg.value).ok
                /\ res.ok /\ deserialize_T(T, res.value).ok
                /\ Len(ext) <= 1
                /\ time.ok /\ deserialize_int(time.value).ok
             THEN Ok([ret_code |-> deserialize_int(code.value).value,
                      ret_msg |-> deserialize_String(msg.value).value,
                      result |-> deserialize_T(T, res.value).value,
                      ret_ext_info |-> IF Len(ext) = 1 THEN ext[1][2] ELSE JNull,
                      time |-> deserialize_int(time.value).value])
             ELSE Err("field")

\* serde_json::from_str::<ApiResponse<T>>(&response_text)
serde_json_from_str(T, text) ==
    IF text.json THEN deserialize_ApiResponse(T, text.v) ELSE Err("syntax")

\* decode_response with the ret_code test inverted
decode_response_Inverted(T, response_text) ==
    LET api_response == serde_json_from_str(T, response_text)
    IN  IF ~api_response.ok THEN Err(SerializationError)
        ELSE IF api_response.value.ret_code = 0
             THEN Err(ApiError(api_response.value.ret_code,
                               api_response.value.ret_msg))
             ELSE Ok(api_response.value.result)

\* decode_response turning ret_code 10006 into RateLimitExceeded
decode_response_Reclassify(T, response_text) ==
    LET api_response == serde_json_from_str(T, response_text)
    IN  IF ~api_response.ok THEN Err(SerializationError)
        ELSE IF api_response.value.ret_code = 10006
             THEN Err([kind |-> "RateLimitExceeded"])
        ELSE IF api_response.value.ret_code # 0
             THEN Err(ApiError(api_response.value.ret_code,
                               api_response.value.ret_msg))
             ELSE Ok(api_response.value.result)

\* the end of BybitClient::request: from the response text to the call's
\* result
decode_response(T, response_text) ==
    LET api_response == serde_json_from_str(T, response_text)
    IN  IF ~api_response.ok THEN Err(SerializationError)
        ELSE IF api_response.value.ret_code # 0
             THEN Err(ApiError(api_response.value.ret_code,
                               api_response.value.ret_msg))
             ELSE Ok(api_response.value.result)

(* ---------------------------------------------------------------- inputs *)

SeqsUpTo(S, n) == UNION {[1..k -> S] : k \in 0..n}

ApiKeys == {<<"k","e","y">>, <<"k","\n","y">>, <<>>}

ApiSecrets == {<<"s","e","c">>, <<>>}

BaseUrls == {TESTNET_URL, MAINNET_URL, <<>>}

Paths == {V5_MARKET_TIME, V5_ORDER_CREATE}

QueryPairs ==
    {<< <<"i","d">>, <<"1">> >>, << <<"a"," ","b">>, <<"x","&","y","=">> >>}

Queries == {None} \cup {Some(q) : q \in SeqsUpTo(QueryPairs, MaxQueryLen)}

Bodies ==
    {None,
     Some(JObj(<< <<<<"s","i","d","e">>, JStr(<<"B","u","y">>)>> >>)),
     Some(JObj(<< <<<<"q","t","y">>, JNum(1)>>,
                  <<<<"t","a","g">>, JStr(<<"a","\"","b">>)>> >>))}

TimeResult ==
    JObj(<< <<K_timeSecond, JStr(<<"1">>)>>, <<K_timeNano, JStr(<<"2">>)>> >>)

Envelope(code, msg, result, time) ==
    JObj(<< <<K_retCode, code>>, <<K_retMsg, msg>>, <<K_result, result>>,
            <<K_retExtInfo, JObj(<<>>)>>, <<K_time, time>> >>)

MSG_OK == <<"O","K">>

MSG_RATE_LIMIT == <<"r","a","t","e"," ","l","i","m","i","t">>

\* the texts a response body may hold
ResponseTexts ==
    {Malformed,
     JsonText(JStr(MSG_OK)),
     JsonText(Envelope(JNum(0), JStr(MSG_OK), TimeResult, JNum(3))),
     JsonText(Envelope(JNum(0), JStr(MSG_OK), JObj(<<>>), JNum(3))),
     JsonText(Envelope(JNum(10006), JStr(MSG_RATE_LIMIT), JObj(<<>>), JNum(0))),
     JsonText(Envelope(JNum(10001), JStr(<<"x">>), TimeResult, JNum(0))),
     JsonText(Envelope(JStr(<<"0">>), JStr(MSG_OK), TimeResult, JNum(3))),
     JsonText(JObj(<< <<K_retCode, JNum(0)>>, <<K_retMsg, JStr(MSG_OK)>>,
                      <<K_result, TimeResult>>, <<K_time, JNum(3)>> >>)),
     JsonText(JObj(<< <<K_retCode, JNum(0)>>, <<K_retMsg, JStr(MSG_OK)>>,
                      <<K_result, TimeResult>> >>)),
     JsonText(JObj(<< <<K_retCode, JNum(110004)>>, <<K_retMsg, JStr(<<"x">>)>>,
                      <<K_time, JNum(0)>> >>))}

(* ----------------------------------------------------------------- state *)
(* client: the BybitClient.  now: the wall clock in ms.  calls[c]: one     *)
(* invocation of get()/post() on the client:                               *)
(*   pc       "idle", "send" (suspended in builder.send().await), "text"   *)
(*            (suspended in response.text().await) or "done"               *)
(*   args     the arguments of the invocation                              *)
(*   signed   the generate_signature call it made, if any                  *)
(*   sent     the request handed to the network, if any                    *)
(*   dispatches  how many requests it handed to the network                *)
(*   failed   the await in which the transport failed ("send" or "text"),  *)
(*            if one did                                                   *)
(*   response the response text it read, if any                            *)
(*   result   what it returned, if it has                                  *)
(* signer: the calls of the public generate_signature made directly:       *)
(*   cur      the last call, its five arguments and its result             *)
(*   prev     an earlier call                                              *)
(*   between  whether other calls were made between prev and cur           *)
(*   digest   the bytes mac.finalize() gave the last call                  *)
(*   hex      their hex::encode                                            *)
(* order: one use of CreateOrderRequestBuilder:                            *)
(*   builder  the builder, once CreateOrderRequest::builder() made it, as  *)
(*            the last setter left it (build() consumes it)                *)
(*   built    what build() did, once called                                *)
(*   json     the serialization of the request built, if made              *)
(* wire: the wire enums:                                                   *)
(*   ser      the last serialization: enum, variant and resulting JSON     *)
(*   de       the last deserialization: enum, JSON and result              *)

IdleCall ==
    [pc |-> "idle", args |-> None, signed |-> None, sent |-> None,
     dispatches |-> 0, failed |-> None, response |-> None, result |-> None]

\* CreateOrderRequest::builder() not called yet
IdleOrder == [builder |-> None, built |-> None, json |-> None]

\* no wire enum serialized or deserialized yet
IdleWire == [ser |-> None, de |-> None]

\* no call of generate_signature made outside the pipeline yet
IdleSigner ==
    [cur |-> None, prev |-> None, between |-> FALSE, digest |-> None, hex |-> None]

\* get_current_timestamp_ms returning the clock as read at construction
get_current_timestamp_ms_Memoized == MaxTime - 1

\* get_current_timestamp_ms returning the value another call in flight has
\* signed, when there is one
get_current_timestamp_ms_Shared ==
    IF \E d \in DOMAIN calls : IsSome(calls[d].signed)
    THEN Unwrap(calls[CHOOSE d \in DOMAIN calls : IsSome(calls[d].signed)].signed).timestamp
    ELSE now

\* auth::get_current_timestamp_ms
get_current_timestamp_ms == now

Init ==
    /\ client \in {testnet, mainnet} \cup {BybitClient_new(u) : u \in BaseUrls}
    /\ now = MaxTime - 1
    /\ calls = [c \in {1} |-> IdleCall]
    /\ signer = IdleSigner
    /\ order = IdleOrder
    /\ wire = IdleWire

\* the client is configured while no call borrows it
WithCredentials(api_key, api_secret) ==
    /\ \A c \in DOMAIN calls : calls[c].pc = "idle"
    /\ client' = with_credentials(client, api_key, api_secret)
    /\ UNCHANGED <<now, calls, signer, order, wire>>

Tick ==
    /\ now < MaxTime
    /\ now' = now + 1
    /\ UNCHANGED <<client, calls, signer, order, wire>>

\* BybitClient::request up to builder.send(): the builder, the signer call
\* made on the way, and whether build_auth_headers returned an error
request_build(self, method, path, query, body, timestamp) ==
    LET url == self.base_url \o path
        b0 == RequestBuilder_new(method, url)
        b1 == IF IsSome(query) THEN RequestBuilder_query(b0, Unwrap(query)) ELSE b0
        auth == IF IsSome(self.credentials)
                THEN Some(build_auth_headers(method, path, query, body,
                                             Unwrap(self.credentials), timestamp))
                ELSE None
        b2 == IF IsSome(auth) /\ Unwrap(auth).ok
              THEN RequestBuilder_headers(b1, Unwrap(auth).headers)
              ELSE b1
        b3 == IF IsSome(body) THEN RequestBuilder_json(b2, Unwrap(body)) ELSE b2
    IN  [header_error |-> IsSome(auth) /\ ~Unwrap(auth).ok,
         signed |-> IF IsSome(auth) THEN Some(Unwrap(auth).signed) ELSE None,
         builder |-> b3]

\* send_dispatches sending a valid request a second time
send_dispatches_Retry(builder) == IF builder.ok THEN 2 ELSE 0

\* how many requests builder.send() hands to the network: none when the
\* builder holds an error, else one
send_dispatches(builder) == IF builder.ok THEN 1 ELSE 0

\* borrow_self taking the credentials out of the client
borrow_self_TakeCredentials(self) == [self EXCEPT !.credentials = None]

\* the client after a call of request(&self, ...), which borrows it immutably
borrow_self(self) == self

\* BybitClient::request from its start to its first suspension or return
Request(c, T, method, path, query, body) ==
    /\ calls[c].pc = "idle"
    /\ LET r == request_build(client, method, path, query, body,
                              get_current_timestamp_ms)
           args == [T |-> T, method |-> method, path |-> path, query |-> query,
                    body |-> body]
       IN  calls' = [calls EXCEPT ![c] =
             IF r.header_error
             THEN [IdleCall EXCEPT !.pc = "done", !.args = Some(args),
                                   !.signed = r.signed,
                                   !.result = Some(Err(InvalidParameter))]
             ELSE IF send_dispatches(r.builder) = 0
             THEN [IdleCall EXCEPT !.pc = "done", !.args = Some(args),
                                   !.signed = r.signed,
                                   !.result = Some(Err(From_reqwest_Error))]
             ELSE [IdleCall EXCEPT !.pc = "send", !.args = Some(args),
                                   !.signed = r.signed,
                                   !.sent = Some(r.builder),
                                   !.dispatches = send_dispatches(r.builder)]]
    /\ client' = borrow_self(client)
    /\ UNCHANGED <<now, signer, order, wire>>

\* BybitClient::get
Get(c, T, path, query) == Request(c, T, "GET", path, query, None)

\* BybitClient::post
Post(c, T, path, body) == Request(c, T, "POST", path, None, body)

\* builder.send().await fails: the ? returns the transport error
SendErr(c) ==
    /\ calls[c].pc = "send"
    /\ calls' = [calls EXCEPT ![c].pc = "done",
                              ![c].failed = Some("send"),
                              ![c].result = Some(Err(From_reqwest_Error))]
    /\ UNCHANGED <<client, now, signer, order, wire>>

\* builder.send().await yields the response
SendOk(c) ==
    /\ calls[c].pc = "send"
    /\ calls' = [calls EXCEPT ![c].pc = "text"]
    /\ UNCHANGED <<client, now, signer, order, wire>>

\* response.text().await fails
TextErr(c) ==
    /\ calls[c].pc = "text"
    /\ calls' = [calls EXCEPT ![c].pc = "done",
                              ![c].failed = Some("text"),
                              ![c].result = Some(Err(From_reqwest_Error))]
    /\ UNCHANGED <<client, now, signer, order, wire>>

\* response.text().await yields the body, which is decoded and returned
TextOk(c, text) ==
    /\ calls[c].pc = "text"
    /\ calls' = [calls EXCEPT
         ![c].pc = "done",
         ![c].response = Some(text),
         ![c].result = Some(decode_response(Unwrap(calls[c].args).T, text))]
    /\ UNCHANGED <<client, now, signer, order, wire>>

\* the caller takes the result; the slot is free for the next invocation
Return(c) ==
    /\ calls[c].pc = "done"
    /\ calls' = [calls EXCEPT ![c] = IdleCall]
    /\ UNCHANGED <<client, now, signer, order, wire>>

(* ------------------------------------------- the signer called directly *)

SignerTimestamps == {1, 12}

SignerKeys == {<<"k">>, <<"2", "k">>}

SignerWindows == {RECV_WINDOW, 6000}

SignerPayloads == {<<>>, <<"a">>, <<"b">>}

SignerSecrets == {<<"s">>, <<"s", NUL>>, <<"t">>}

\* digests in which every value occurs as the high half and as the low half
\* of a byte
DigestSamples ==
    {[i \in 1..SHA256_OUTPUT_SIZE |-> (first + 17 * (i - 1)) % 256] :
        first \in {0, 128}}

\* a call of generate_signature; keep: whether the earlier call remembered
\* stays the same one, so that this call and others lie between the two
SignerCall(timestamp, api_key, recv_window, payload, secret, keep) ==
    /\ signer' =
          [cur |-> Some([timestamp |-> timestamp, api_key |-> api_key,
                         recv_window |-> recv_window, payload |-> payload,
                         secret |-> secret,
                         signature |-> generate_signature(timestamp, api_key,
                                           recv_window, payload, secret)]),
           prev |-> IF keep /\ IsSome(signer.prev) THEN signer.prev ELSE signer.cur,
           between |-> keep /\ IsSome(signer.prev),
           digest |-> None,
           hex |-> None]
    /\ UNCHANGED <<client, now, calls, order, wire>>

\* mac.finalize().into_bytes() of the last call gives some 32 bytes, which
\* hex::encode turns into the string returned
SignerFinalize(bytes) ==
    /\ IsSome(signer.cur)
    /\ IsNone(signer.digest)
    /\ signer' = [signer EXCEPT !.digest = Some(bytes),
                                !.hex = Some(hex_encode_bytes(bytes))]
    /\ UNCHANGED <<client, now, calls, order, wire>>

SignerInit ==
    /\ client = testnet
    /\ now = MaxTime - 1
    /\ calls = [c \in {1} |-> IdleCall]
    /\ signer = IdleSigner
    /\ order = IdleOrder
    /\ wire = IdleWire

SignerNext ==
    \/ \E t \in SignerTimestamps, k \in SignerKeys, w \in SignerWindows,
          p \in SignerPayloads, s \in SignerSecrets, keep \in BOOLEAN :
          SignerCall(t, k, w, p, s, keep)
    \/ \E d \in DigestSamples : SignerFinalize(d)

SignerSpec == SignerInit /\ [][SignerNext]_vars

(* ------------------------------------ CreateOrderRequest and its builder *)

\* the fields of CreateOrderRequest in the order of declaration: the name,
\* the key serde writes it under, the kind of its value, and whether it is
\* an Option with skip_serializing_if = "Option::is_none"
OrderFields ==
    <<
      [name |-> "category", key |-> <<"c","a","t","e","g","o","r","y">>,
       kind |-> "String", optional |-> FALSE],
      [name |-> "symbol", key |-> <<"s","y","m","b","o","l">>,
       kind |-> "String", optional |-> FALSE],
      [name |-> "side", key |-> <<"s","i","d","e">>,
       kind |-> "String", optional |-> FALSE],
      [name |-> "order_type", key |-> <<"o","r","d","e","r","T","y","p","e">>,
       kind |-> "String", optional |-> FALSE],
      [name |-> "qty", key |-> <<"q","t","y">>,
       kind |-> "String", optional |-> TRUE],
      [name |-> "price", key |-> <<"p","r","i","c","e">>,
       kind |-> "String", optional |-> TRUE],
      [name |-> "time_in_force", key |-> <<"t","i","m","e","I","n","F","o","r","c","e">>,
       kind |-> "String", optional |-> TRUE],
      [name |-> "position_idx", key |-> <<"p","o","s","i","t","i","o","n","I","d","x">>,
       kind |-> "u64", optional |-> TRUE],
      [name |-> "order_link_id", key |-> <<"o","r","d","e","r","L","i","n","k","I","d">>,
       kind |-> "String", optional |-> TRUE],
      [name |-> "trigger_price", key |-> <<"t","r","i","g","g","e","r","P","r","i","c","e">>,
       kind |-> "String", optional |-> TRUE],
      [name |-> "take_profit", key |-> <<"t","a","k","e","P","r","o","f","i","t">>,
       kind |-> "String", optional |-> TRUE],
      [name |-> "stop_loss", key |-> <<"s","t","o","p","L","o","s","s">>,
       kind |-> "String", optional |-> TRUE],
      [name |-> "reduce_only", key |-> <<"r","e","d","u","c","e","O","n","l","y">>,
       kind |-> "bool", optional |-> TRUE],
      [name |-> "close_on_trigger", key |-> <<"c","l","o","s","e","O","n","T","r","i","g","g","e","r">>,
       kind |-> "bool", optional |-> TRUE],
      [name |-> "trigger_by", key |-> <<"t","r","i","g","g","e","r","_","b","y">>,
       kind |-> "String", optional |-> TRUE],
      [name |-> "tp_trigger_by", key |-> <<"t","p","_","t","r","i","g","g","e","r","_","b","y">>,
       kind |-> "String", optional |-> TRUE],
      [name |-> "sl_trigger_by", key |-> <<"s","l","_","t","r","i","g","g","e","r","_","b","y">>,
       kind |-> "String", optional |-> TRUE],
      [name |-> "market_unit", key |-> <<"m","a","r","k","e","t","_","u","n","i","t">>,
       kind |-> "String", optional |-> TRUE],
      [name |-> "slippage_tolerance_type", key |-> <<"s","l","i","p","p","a","g","e","_","t","o","l","e","r","a","n","c","e","_","t","y","p","e">>,
       kind |-> "String", optional |-> TRUE],
      [name |-> "slippage_tolerance", key |-> <<"s","l","i","p","p","a","g","e","_","t","o","l","e","r","a","n","c","e">>,
       kind |-> "String", optional |-> TRUE],
      [name |-> "trigger_direction", key |-> <<"t","r","i","g","g","e","r","_","d","i","r","e","c","t","i","o","n">>,
       kind |-> "i32", optional |-> TRUE],
      [name |-> "order_filter", key |-> <<"o","r","d","e","r","_","f","i","l","t","e","r">>,
       kind |-> "String", optional |-> TRUE]
    >>

FieldNames == {OrderFields[i].name : i \in DOMAIN OrderFields}

\* the fields by name
FieldByName ==
    [name \in FieldNames |->
        OrderFields[CHOOSE i \in DOMAIN OrderFields : OrderFields[i].name = name]]

FieldOf(name) == FieldByName[name]

OptionalFields == {name \in FieldNames : FieldByName[name].optional}

\* at most this many of the optional fields are set on one builder
MaxOptionalSet == 2

\* the values the setters are called with
SetterValues(name) ==
    CASE name = "category" -> {<<"l","i","n","e","a","r">>, <<"s","p","o","t">>}
      [] name = "symbol" -> {<<"B","T","C">>}
      [] name = "side" -> {<<"B","u","y">>, <<"S","e","l","l">>}
      [] name = "order_type" -> {<<"L","i","m","i","t">>}
      [] FieldOf(name).kind = "bool" -> {TRUE, FALSE}
      [] FieldOf(name).kind = "String" -> {<<"1">>}
      [] OTHER -> {1}

\* CreateOrderRequestBuilder::default()
CreateOrderRequestBuilder_default == [f \in FieldNames |-> None]

\* CreateOrderRequest::builder()
CreateOrderRequest_builder == CreateOrderRequestBuilder_default

\* a setter that also writes trigger_price when it sets price
setter_Aliased(self, name, value) ==
    [f \in FieldNames |->
        IF f = name \/ (name = "price" /\ f = "trigger_price") THEN Some(value)
        ELSE self[f]]

\* the setter of the field name: self.name = Some(value.into()); self
setter(self, name, value) == [self EXCEPT ![name] = Some(value)]

\* a panic with a message
Panic(msg) == [ok |-> FALSE, panic |-> msg]

\* build testing side before symbol
build_SideFirst(self) ==
    IF IsNone(self.side) THEN Panic("side is required")
    ELSE IF IsNone(self.symbol) THEN Panic("symbol is required")
    ELSE IF IsNone(self.order_type) THEN Panic("order_type is required")
    ELSE Ok([f \in FieldNames |->
               IF f = "category"
               THEN (IF IsSome(self[f]) THEN Unwrap(self[f]) ELSE <<"l","i","n","e","a","r">>)
               ELSE IF FieldOf(f).optional THEN self[f] ELSE Unwrap(self[f])])

\* CreateOrderRequestBuilder::build: the field expressions are evaluated in
\* the order written, so the first expect() on a None panics
build(self) ==
    IF IsNone(self.symbol) THEN Panic("symbol is required")
    ELSE IF IsNone(self.side) THEN Panic("side is required")
    ELSE IF IsNone(self.order_type) THEN Panic("order_type is required")
    ELSE Ok([f \in FieldNames |->
               IF f = "category"
               THEN (IF IsSome(self[f]) THEN Unwrap(self[f]) ELSE <<"l","i","n","e","a","r">>)
               ELSE IF FieldOf(f).optional THEN self[f] ELSE Unwrap(self[f])])

\* the JSON value of a field's value
FieldJson(kind, x) ==
    CASE kind = "String" -> JStr(x)
      [] kind = "bool" -> JBool(x)
      [] OTHER -> JNum(x)

RECURSIVE WriteFields(_, _, _)
\* the members serde writes for the fields i.. of request: all of them when
\* skip is FALSE, else all but the optional ones that are None
WriteFields(request, i, skip) ==
    IF i > Len(OrderFields) THEN <<>>
    ELSE LET fd == OrderFields[i]
             x == request[fd.name]
         IN  (IF ~fd.optional THEN << <<fd.key, FieldJson(fd.kind, x)>> >>
              ELSE IF IsSome(x) THEN << <<fd.key, FieldJson(fd.kind, Unwrap(x))>> >>
              ELSE IF skip THEN <<>>
              ELSE << <<fd.key, JNull>> >>)
             \o WriteFields(request, i + 1, skip)

\* Serialize for CreateOrderRequest without skip_serializing_if
serialize_CreateOrderRequest_NoSkip(request) == JObj(WriteFields(request, 1, FALSE))

\* the derived Serialize for CreateOrderRequest
serialize_CreateOrderRequest(request) == JObj(WriteFields(request, 1, TRUE))

OptionalSet(b) == {f \in OptionalFields : IsSome(b[f])}

OrderBuilder ==
    /\ IsNone(order.builder)
    /\ order' = [order EXCEPT !.builder = Some(CreateOrderRequest_builder)]
    /\ UNCHANGED <<client, now, calls, signer, wire>>

\* one setter call of the chain
OrderSet(name, value) ==
    /\ IsSome(order.builder) /\ IsNone(order.built)
    /\ \/ ~FieldOf(name).optional
       \/ name \in OptionalSet(Unwrap(order.builder))
       \/ Cardinality(OptionalSet(Unwrap(order.builder))) < MaxOptionalSet
    /\ order' = [order EXCEPT !.builder = Some(setter(Unwrap(order.builder), name, value))]
    /\ UNCHANGED <<client, now, calls, signer, wire>>

\* build() ends the chain, with a request or a panic
OrderBuild ==
    /\ IsSome(order.builder) /\ IsNone(order.built)
    /\ order' = [order EXCEPT !.built = Some(build(Unwrap(order.builder)))]
    /\ UNCHANGED <<client, now, calls, signer, wire>>

\* serde_json::to_string(&request)
OrderSerialize ==
    /\ IsSome(order.built) /\ Unwrap(order.built).ok /\ IsNone(order.json)
    /\ order' = [order EXCEPT !.json =
                    Some(JsonWrite(serialize_CreateOrderRequest(Unwrap(order.built).value)))]
    /\ UNCHANGED <<client, now, calls, signer, wire>>

OrderInit ==
    /\ client = testnet
    /\ now = MaxTime - 1
    /\ calls = [c \in {1} |-> IdleCall]
    /\ signer = IdleSigner
    /\ order = IdleOrder
    /\ wire = IdleWire

OrderNext ==
    \/ OrderBuilder
    \/ \E name \in FieldNames : \E value \in SetterValues(name) : OrderSet(name, value)
    \/ OrderBuild
    \/ OrderSerialize

OrderSpec == OrderInit /\ [][OrderNext]_vars

(* -------------------------------------------------------- the wire enums *)

\* the variants of Category, Side, OrderType, TimeInForce and OrderStatus
\* with their #[serde(rename = ...)]
WireVariants ==
    <<
      [enum |-> "Category", variant |-> <<"L","i","n","e","a","r">>,
       rename |-> <<"l","i","n","e","a","r">>],
      [enum |-> "Category", variant |-> <<"I","n","v","e","r","s","e">>,
       rename |-> <<"i","n","v","e","r","s","e">>],
      [enum |-> "Category", variant |-> <<"S","p","o","t">>,
       rename |-> <<"s","p","o","t">>],
      [enum |-> "Category", variant |-> <<"O","p","t","i","o","n">>,
       rename |-> <<"o","p","t","i","o","n">>],
      [enum |-> "Side", variant |-> <<"B","u","y">>,
       rename |-> <<"B","u","y">>],
      [enum |-> "Side", variant |-> <<"S","e","l","l">>,
       rename |-> <<"S","e","l","l">>],
      [enum |-> "OrderType", variant |-> <<"M","a","r","k","e","t">>,
       rename |-> <<"M","a","r","k","e","t">>],
      [enum |-> "OrderType", variant |-> <<"L","i","m","i","t">>,
       rename |-> <<"L","i","m","i","t">>],
      [enum |-> "TimeInForce", variant |-> <<"G","T","C">>,
       rename |-> <<"G","T","C">>],
      [enum |-> "TimeInForce", variant |-> <<"I","O","C">>,
       rename |-> <<"I","O","C">>],
      [enum |-> "TimeInForce", variant |-> <<"F","O","K">>,
       rename |-> <<"F","O","K">>],
      [enum |-> "TimeInForce", variant |-> <<"P","o","s","t","O","n","l","y">>,
       rename |-> <<"P","o","s","t","O","n","l","y">>],
      [enum |-> "TimeInForce", variant |-> <<"R","P","I">>,
       rename |-> <<"R","P","I">>],
      [enum |-> "OrderStatus", variant |-> <<"N","e","w">>,
       rename |-> <<"N","e","w">>],
      [enum |-> "OrderStatus", variant |-> <<"P","a","r","t","i","a","l","l","y","F","i","l","l","e","d">>,
       rename |-> <<"P","a","r","t","i","a","l","l","y","F","i","l","l","e","d">>],
      [enum |-> "OrderStatus", variant |-> <<"F","i","l","l","e","d">>,
       rename |-> <<"F","i","l","l","e","d">>],
      [enum |-> "OrderStatus", variant |-> <<"C","a","n","c","e","l","l","e","d">>,
       rename |-> <<"C","a","n","c","e","l","l","e","d">>],
      [enum |-> "OrderStatus", variant |-> <<"R","e","j","e","c","t","e","d">>,
       rename |-> <<"R","e","j","e","c","t","e","d">>]
    >>

WireEnums == {WireVariants[i].enum : i \in DOMAIN WireVariants}

VariantsOf(enum) ==
    {WireVariants[i].variant : i \in {j \in DOMAIN WireVariants : WireVariants[j].enum = enum}}

\* serialize_enum writing the name of the variant, whatever its rename
serialize_enum_VariantName(enum, variant) == JsonWrite(JStr(variant))

\* serde_json::to_string of a variant: the derived Serialize writes a unit
\* variant as the string of its rename
serialize_enum(enum, variant) ==
    JsonWrite(JStr(WireVariants[CHOOSE i \in DOMAIN WireVariants :
                                    /\ WireVariants[i].enum = enum
                                    /\ WireVariants[i].variant = variant].rename))

\* serde_json::from_str::<enum>(text): the text must be a JSON string naming
\* a variant of the enum by its rename (the strings of the model need no
\* escapes)
deserialize_enum(enum, text) ==
    IF /\ Len(text) >= 2 /\ text[1] = "\"" /\ text[Len(text)] = "\""
       /\ \E i \in DOMAIN WireVariants :
              /\ WireVariants[i].enum = enum
              /\ WireVariants[i].rename = SubSeq(text, 2, Len(text) - 1)
    THEN Ok(WireVariants[CHOOSE i \in DOMAIN WireVariants :
                            /\ WireVariants[i].enum = enum
                            /\ WireVariants[i].rename = SubSeq(text, 2, Len(text) - 1)].variant)
    ELSE Err(SerializationError)

\* the texts given to from_str: what serializing any variant gives, and
\* texts that name no variant
WireTexts ==
    {serialize_enum(WireVariants[i].enum, WireVariants[i].variant) : i \in DOMAIN WireVariants}
    \cup {JsonWrite(JStr(<<"L","i","n","e","a","r">>)), JsonWrite(JStr(<<"b","u","y">>)),
          JsonWrite(JNum(1)), <<"B","u","y">>}

WireSerialize(enum, variant) ==
    /\ wire' = [wire EXCEPT !.ser = Some([enum |-> enum, variant |-> variant,
                                          json |-> serialize_enum(enum, variant)])]
    /\ UNCHANGED <<client, now, calls, signer, order>>

WireDeserialize(enum, text) ==
    /\ wire' = [wire EXCEPT !.de = Some([enum |-> enum, json |-> text,
                                         result |-> deserialize_enum(enum, text)])]
    /\ UNCHANGED <<client, now, calls, signer, order>>

WireInit ==
    /\ client = testnet
    /\ now = MaxTime - 1
    /\ calls = [c \in {1} |-> IdleCall]
    /\ signer = IdleSigner
    /\ order = IdleOrder
    /\ wire = IdleWire

WireNext ==
    \/ \E enum \in WireEnums : \E variant \in VariantsOf(enum) : WireSerialize(enum, variant)
    \/ \E enum \in WireEnums, text \in WireTexts : WireDeserialize(enum, text)

WireSpec == WireInit /\ [][WireNext]_vars

(* ------------------------------------ several calls on one client at once *)

\* the calls in flight together
ConcCalls == {1, 2}

ConcQueries == {None, Some(<< << <<"i","d">>, <<"1">> >> >>)}

ConcBodies == {None, Some(JObj(<< <<<<"s","i","d","e">>, JStr(<<"B","u","y">>)>> >>))}

ConcResponseTexts ==
    {Malformed,
     JsonText(Envelope(JNum(0), JStr(MSG_OK), TimeResult, JNum(3))),
     JsonText(Envelope(JNum(10006), JStr(MSG_RATE_LIMIT), JObj(<<>>), JNum(0)))}

\* one client, shared by reference among the futures of its calls
ConcInit ==
    /\ client \in {testnet,
                   with_credentials(testnet, <<"k","e","y">>, <<"s","e","c">>)}
    /\ now = MaxTime - 1
    /\ calls = [c \in ConcCalls |-> IdleCall]
    /\ signer = IdleSigner
    /\ order = IdleOrder
    /\ wire = IdleWire

\* the futures are polled in any order
ConcNext ==
    \/ Tick
    \/ \E c \in DOMAIN calls, T \in ResultTypes, p \in Paths, q \in ConcQueries :
          Get(c, T, p, q)
    \/ \E c \in DOMAIN calls, T \in ResultTypes, p \in Paths, b \in ConcBodies :
          Post(c, T, p, b)
    \/ \E c \in DOMAIN calls : SendErr(c)
    \/ \E c \in DOMAIN calls : SendOk(c)
    \/ \E c \in DOMAIN calls : TextErr(c)
    \/ \E c \in DOMAIN calls, text \in ConcResponseTexts : TextOk(c, text)
    \/ \E c \in DOMAIN calls : Return(c)

ConcSpec == ConcInit /\ [][ConcNext]_vars

Next ==
    \/ \E k \in ApiKeys, s \in ApiSecrets : WithCredentials(k, s)
    \/ Tick
    \/ \E c \in DOMAIN calls, T \in ResultTypes, p \in Paths, q \in Queries :
          Get(c, T, p, q)
    \/ \E c \in DOMAIN calls, T \in ResultTypes, p \in Paths, b \in Bodies :
          Post(c, T, p, b)
    \/ \E c \in DOMAIN calls : SendErr(c)
    \/ \E c \in DOMAIN calls : SendOk(c)
    \/ \E c \in DOMAIN calls : TextErr(c)
    \/ \E c \in DOMAIN calls, text \in ResponseTexts : TextOk(c, text)
    \/ \E c \in DOMAIN calls : Return(c)

Spec == Init /\ [][Next]_vars

(* ============================================================ properties *)

Started(c) == calls[c].pc # "idle"

Done(c) == calls[c].pc = "done"

Args(c) == Unwrap(calls[c].args)

\* the call made a generate_signature call (it ran build_auth_headers)
Signed(c) == IsSome(calls[c].signed)

Dispatched(c) == IsSome(calls[c].sent)

SentHeaders(c) == Unwrap(calls[c].sent).headers

\* the query string of the URL of a request ("" when the URL has none)
QueryString(req) == IF IsSome(req.query) THEN Unwrap(req.query) ELSE <<>>

(* ------------------------------------------------ readers of encoded text *)

RECURSIVE Split(_, _)
\* the segments of s between the occurrences of sep
Split(s, sep) ==
    IF \E i \in 1..Len(s) : s[i] = sep
    THEN LET i == CHOOSE j \in 1..Len(s) :
                    s[j] = sep /\ \A k \in 1..(j - 1) : s[k] # sep
         IN  <<SubSeq(s, 1, i - 1)>> \o Split(SubSeq(s, i + 1, Len(s)), sep)
    ELSE <<s>>

PercentByte(hi, lo) ==
    CASE <<hi, lo>> = <<"2", "6">> -> "&"
      [] <<hi, lo>> = <<"3", "D">> -> "="
      [] <<hi, lo>> = <<"2", "B">> -> "+"
      [] <<hi, lo>> = <<"2", "F">> -> "/"
      [] <<hi, lo>> = <<"2", "5">> -> "%"
      [] OTHER -> "?"

RECURSIVE PercentDecode(_)
\* application/x-www-form-urlencoded decoding of one key or value
PercentDecode(s) ==
    IF s = <<>> THEN <<>>
    ELSE IF Head(s) = "+" THEN <<" ">> \o PercentDecode(Tail(s))
    ELSE IF Head(s) = "%" /\ Len(s) >= 3
         THEN <<PercentByte(s[2], s[3])>> \o PercentDecode(SubSeq(s, 4, Len(s)))
    ELSE <<Head(s)>> \o PercentDecode(Tail(s))

\* the <<key, value>> pairs a query string stands for, in its order
FormParse(s) ==
    IF s = <<>> THEN <<>>
    ELSE [i \in 1..Len(Split(s, "&")) |->
            LET kv == Split(Split(s, "&")[i], "=")
            IN  <<PercentDecode(kv[1]),
                  IF Len(kv) >= 2 THEN PercentDecode(kv[2]) ELSE <<>>>>]

DigitValue(ch) ==
    IF \E d \in 0..9 : Digit(d) = ch THEN CHOOSE d \in 0..9 : Digit(d) = ch ELSE 0 - 1

RECURSIVE DecimalValue(_)
\* the number a string of decimal digits stands for
DecimalValue(s) ==
    IF s = <<>> THEN 0
    ELSE 10 * DecimalValue(SubSeq(s, 1, Len(s) - 1)) + DigitValue(s[Len(s)])

(* -------------------------------------------------------------------- C1 *)
\* C1: auth gating.  A request handed to the network by a client without
\* credentials carries none of X-BAPI-API-KEY, X-BAPI-TIMESTAMP, X-BAPI-SIGN,
\* X-BAPI-RECV-WINDOW; one handed over by a client with credentials carries
\* all four.
C1_AuthGating ==
    \A c \in DOMAIN calls :
        Dispatched(c) =>
            /\ IsNone(client.credentials) =>
                   (DOMAIN SentHeaders(c)) \cap AuthHeaderNames = {}
            /\ IsSome(client.credentials) =>
                   AuthHeaderNames \subseteq DOMAIN SentHeaders(c)

C1_Witness ==
    \E c \in DOMAIN calls :
        /\ Dispatched(c)
        /\ IsSome(client.credentials)
        /\ AuthHeaderNames \subseteq DOMAIN SentHeaders(c)

(* -------------------------------------------------------------------- C2 *)
\* C2: for an authenticated POST with a body, the bytes sent as the request
\* body are the bytes given to generate_signature as payload; a POST without
\* a body is signed over the empty string.
C2_PostBodyIsSignedPayload ==
    \A c \in DOMAIN calls :
        (Signed(c) /\ Args(c).method = "POST") =>
            /\ IsNone(Args(c).body) =>
                   Unwrap(calls[c].signed).payload = <<>>
            /\ (IsSome(Args(c).body) /\ Dispatched(c)) =>
                   Unwrap(calls[c].sent).body = Some(Unwrap(calls[c].signed).payload)

C2_Witness ==
    \E c \in DOMAIN calls :
        /\ Signed(c) /\ Dispatched(c)
        /\ Args(c).method = "POST"
        /\ IsSome(Args(c).body)
        /\ Len(Unwrap(calls[c].signed).payload) > 2
        /\ Unwrap(calls[c].sent).body = Some(Unwrap(calls[c].signed).payload)

(* -------------------------------------------------------------------- C3 *)
\* C3: for an authenticated GET, the signed payload is the URL-encoded query
\* string of the caller's pairs (it reads back as exactly those pairs, in
\* the caller's order, duplicates kept), it is the query string of the URL
\* sent, and a GET without a query is signed over the empty string.
C3_GetQueryIsSignedPayload ==
    \A c \in DOMAIN calls :
        (Signed(c) /\ Args(c).method = "GET") =>
            /\ IsNone(Args(c).query) =>
                   Unwrap(calls[c].signed).payload = <<>>
            /\ IsSome(Args(c).query) =>
                   FormParse(Unwrap(calls[c].signed).payload) = Unwrap(Args(c).query)
            /\ Dispatched(c) =>
                   QueryString(Unwrap(calls[c].sent)) = Unwrap(calls[c].signed).payload

C3_Witness ==
    \E c \in DOMAIN calls :
        /\ Signed(c) /\ Dispatched(c)
        /\ Args(c).method = "GET"
        /\ IsSome(Args(c).query)
        /\ Len(Unwrap(Args(c).query)) = 2
        /\ Unwrap(Args(c).query)[1] = Unwrap(Args(c).query)[2]
        /\ \E i \in 1..Len(Unwrap(calls[c].signed).payload) :
               Unwrap(calls[c].signed).payload[i] = "%"
        /\ QueryString(Unwrap(calls[c].sent)) = Unwrap(calls[c].signed).payload

(* -------------------------------------------------------------------- C4 *)
\* C4: in an authenticated request, X-BAPI-TIMESTAMP is the decimal form of
\* the timestamp given to generate_signature, X-BAPI-API-KEY is the api_key
\* given to it, X-BAPI-RECV-WINDOW is the constant 5000 given to it, and
\* X-BAPI-SIGN is the signature it returned.
C4_HeadersMatchSigner ==
    \A c \in DOMAIN calls :
        (Signed(c) /\ Dispatched(c)) =>
            LET h == SentHeaders(c)
                g == Unwrap(calls[c].signed)
            IN  /\ AuthHeaderNames \subseteq DOMAIN h
                /\ DecimalValue(h["X-BAPI-TIMESTAMP"]) = g.timestamp
                /\ h["X-BAPI-TIMESTAMP"] = to_string(g.timestamp)
                /\ h["X-BAPI-API-KEY"] = g.api_key
                /\ g.recv_window = 5000
                /\ h["X-BAPI-RECV-WINDOW"] = <<"5", "0", "0", "0">>
                /\ h["X-BAPI-SIGN"] = g.signature
                /\ g.signature = generate_signature(g.timestamp, g.api_key,
                                                    g.recv_window, g.payload,
                                                    g.secret)

C4_Witness ==
    \E c \in DOMAIN calls :
        /\ Signed(c) /\ Dispatched(c)
        /\ Unwrap(calls[c].signed).timestamp = MaxTime
        /\ SentHeaders(c)["X-BAPI-TIMESTAMP"] = to_string(MaxTime)
        /\ SentHeaders(c)["X-BAPI-SIGN"] = Unwrap(calls[c].signed).signature

(* ------------------------------------------------- the shape of envelopes *)

Response(c) == Unwrap(calls[c].response)

\* the value of the only member of the object v named k
Member(v, k) == Members(v.m, k)[1][2]

HasOne(v, k) == Len(Members(v.m, k)) = 1

\* the JSON value v has the shape of the result type T
HasShape(T, v) ==
    \/ T = "Value"
    \/ /\ T = "ServerTime"
       /\ v.t = "obj"
       /\ HasOne(v, K_timeSecond) /\ Member(v, K_timeSecond).t = "str"
       /\ HasOne(v, K_timeNano) /\ Member(v, K_timeNano).t = "str"

\* the text is JSON of the envelope shape, whatever its result member holds
IsEnvelope(text) ==
    /\ text.json
    /\ text.v.t = "obj"
    /\ HasOne(text.v, K_retCode) /\ Member(text.v, K_retCode).t = "num"
    /\ HasOne(text.v, K_retMsg) /\ Member(text.v, K_retMsg).t = "str"
    /\ HasOne(text.v, K_result)
    /\ Len(Members(text.v.m, K_retExtInfo)) <= 1
    /\ HasOne(text.v, K_time) /\ Member(text.v, K_time).t = "num"

\* the text is JSON of the envelope shape for T
IsEnvelopeFor(T, text) ==
    IsEnvelope(text) /\ HasShape(T, Member(text.v, K_result))

RetCode(text) == Member(text.v, K_retCode).n

RetMsg(text) == Member(text.v, K_retMsg).s

\* the value of type T that the JSON value v of that shape stands for
ValueOf(T, v) ==
    IF T = "ServerTime"
    THEN [time_second |-> Member(v, K_timeSecond).s,
          time_nano |-> Member(v, K_timeNano).s]
    ELSE v

ServerTimeExample ==
    JsonText(Envelope(JNum(0), JStr(MSG_OK), TimeResult, JNum(3)))

RateLimitExample ==
    JsonText(Envelope(JNum(10006), JStr(MSG_RATE_LIMIT), JObj(<<>>), JNum(0)))

(* -------------------------------------------------------------------- C5 *)
\* C5: envelope success law.  When the response text is an envelope with
\* retCode 0 whose result decodes as T, the call returns Ok with that decoded
\* result; the result {"timeSecond":"1","timeNano":"2"} yields
\* ServerTime{time_second:"1", time_nano:"2"}.
C5_EnvelopeSuccess ==
    \A c \in DOMAIN calls :
        (Done(c) /\ IsSome(calls[c].response)) =>
            /\ (IsEnvelopeFor(Args(c).T, Response(c)) /\ RetCode(Response(c)) = 0) =>
                   calls[c].result =
                       Some(Ok(ValueOf(Args(c).T, Member(Response(c).v, K_result))))
            /\ (Args(c).T = "ServerTime" /\ Response(c) = ServerTimeExample) =>
                   calls[c].result =
                       Some(Ok([time_second |-> <<"1">>, time_nano |-> <<"2">>]))

C5_Witness ==
    \E c \in DOMAIN calls :
        /\ Done(c)
        /\ Args(c).T = "ServerTime"
        /\ calls[c].response = Some(ServerTimeExample)
        /\ calls[c].result = Some(Ok([time_second |-> <<"1">>, time_nano |-> <<"2">>]))

(* -------------------------------------------------------------------- C6 *)
\* C6: when the response text parses as the envelope for T and its ret_code
\* is not 0, the call returns ApiError with exactly the envelope's ret_code
\* and ret_msg, never Ok; ret_code 10006 is returned as ApiError like any
\* other.
C6_ApiErrorVerbatim ==
    \A c \in DOMAIN calls :
        (/\ Done(c) /\ IsSome(calls[c].response)
         /\ IsEnvelopeFor(Args(c).T, Response(c))
         /\ RetCode(Response(c)) # 0) =>
            /\ ~Unwrap(calls[c].result).ok
            /\ Unwrap(calls[c].result).error.kind = "ApiError"
            /\ Unwrap(calls[c].result).error.ret_code = RetCode(Response(c))
            /\ Unwrap(calls[c].result).error.ret_msg = RetMsg(Response(c))

C6_Witness ==
    \E c \in DOMAIN calls :
        /\ Done(c)
        /\ calls[c].response = Some(RateLimitExample)
        /\ IsEnvelopeFor(Args(c).T, Response(c))
        /\ calls[c].result = Some(Err(ApiError(10006, MSG_RATE_LIMIT)))

(* -------------------------------------------------------------------- C7 *)
\* C7: envelope failure law.  For every result type T and every envelope
\* with a retCode other than 0, whatever its result member holds, the call
\* returns ApiError with that ret_code and ret_msg; the rate-limit example
\* yields ApiError 10006 "rate limit".
C7_EnvelopeFailure ==
    \A c \in DOMAIN calls :
        (/\ Done(c) /\ IsSome(calls[c].response)
         /\ IsEnvelope(Response(c))
         /\ RetCode(Response(c)) # 0) =>
            calls[c].result =
                Some(Err(ApiError(RetCode(Response(c)), RetMsg(Response(c)))))

(* -------------------------------------------------------------------- C8 *)
\* C8: when the response text is not JSON of the envelope shape for T, the
\* call returns SerializationError: neither Ok nor ApiError.
C8_SerializationError ==
    \A c \in DOMAIN calls :
        (/\ Done(c) /\ IsSome(calls[c].response)
         /\ ~IsEnvelopeFor(Args(c).T, Response(c))) =>
            /\ ~Unwrap(calls[c].result).ok
            /\ Unwrap(calls[c].result).error = SerializationError

C8_Witness ==
    \E c \in DOMAIN calls :
        /\ Done(c)
        /\ calls[c].response = Some(Malformed)
        /\ calls[c].result = Some(Err(SerializationError))

(* -------------------------------------------------------------------- C9 *)
\* build_auth_headers returned an error to the call
HeaderError(c) == calls[c].result = Some(Err(InvalidParameter))

\* C9 as stated: every invocation hands at most one request to the network,
\* and exactly one when header construction succeeds.
C9_ExactlyOneDispatch ==
    \A c \in DOMAIN calls :
        Started(c) =>
            /\ calls[c].dispatches <= 1
            /\ ~HeaderError(c) => calls[c].dispatches = 1

\* C9 amended: every invocation hands at most one request to the network,
\* whatever its outcome; exactly one when header construction succeeds and
\* base_url followed by the path is a URL the transport accepts; none when
\* it is not.
C9_AtMostOneDispatch ==
    \A c \in DOMAIN calls :
        Started(c) =>
            /\ calls[c].dispatches <= 1
            /\ (~HeaderError(c) /\ IntoUrlOk(client.base_url \o Args(c).path)) =>
                   calls[c].dispatches = 1
            /\ ~IntoUrlOk(client.base_url \o Args(c).path) =>
                   calls[c].dispatches = 0

C9_Witness ==
    \E c \in DOMAIN calls :
        /\ Done(c)
        /\ calls[c].dispatches = 1
        /\ calls[c].result = Some(Err(RequestError))

(* ------------------------------------------------------------------- C10 *)
\* C10: when the api_key cannot be encoded as a header value, the call
\* returns InvalidParameter and hands no request to the network.
C10_InvalidKeyNotDispatched ==
    \A c \in DOMAIN calls :
        (/\ Started(c)
         /\ IsSome(client.credentials)
         /\ \E i \in 1..Len(Unwrap(client.credentials).api_key) :
                Unwrap(client.credentials).api_key[i] \in ControlChars) =>
            /\ Done(c)
            /\ calls[c].result = Some(Err(InvalidParameter))
            /\ calls[c].dispatches = 0
            /\ ~Dispatched(c)

C10_Witness ==
    \E c \in DOMAIN calls :
        /\ Done(c)
        /\ IsSome(client.credentials)
        /\ Unwrap(client.credentials).api_key = <<"k", "\n", "y">>
        /\ calls[c].result = Some(Err(InvalidParameter))
        /\ calls[c].dispatches = 0

(* ------------------------------------------------------------------- C11 *)
\* C11: a transport failure while sending the request or while reading the
\* response body is returned as RequestError; the request is not sent again
\* and no response text is decoded.
C11_TransportFailure ==
    \A c \in DOMAIN calls :
        IsSome(calls[c].failed) =>
            /\ Done(c)
            /\ calls[c].result = Some(Err(RequestError))
            /\ calls[c].dispatches = 1
            /\ IsNone(calls[c].response)

C11_Witness ==
    \E c \in DOMAIN calls :
        /\ calls[c].failed = Some("text")
        /\ calls[c].dispatches = 1
        /\ calls[c].result = Some(Err(RequestError))

(* ------------------------------------------------------------------- C12 *)
HasSigningHeaders(c) == (DOMAIN SentHeaders(c)) \cap AuthHeaderNames # {}

HasAllSigningHeaders(c) == AuthHeaderNames \subseteq DOMAIN SentHeaders(c)

\* the URL of the call is one the transport accepts
UrlAccepted(c) == IntoUrlOk(client.base_url \o Args(c).path)

\* C12 as stated: a request carries signing headers if and only if the
\* client holds credentials whose key and secret are both non-empty.
C12_NonEmptyCredentials ==
    \A c \in DOMAIN calls :
        Dispatched(c) =>
            (HasSigningHeaders(c) <=>
                /\ IsSome(client.credentials)
                /\ Unwrap(client.credentials).api_key # <<>>
                /\ Unwrap(client.credentials).api_secret # <<>>)

\* C12 amended: a request carries signing headers (all four) if and only if
\* the client holds credentials, whatever the two strings are; a client
\* given an empty key or an empty secret by with_credentials still sends all
\* four, the API key header holding the key as given.
C12_CredentialsPresent ==
    \A c \in DOMAIN calls :
        /\ Dispatched(c) =>
               /\ HasSigningHeaders(c) <=> IsSome(client.credentials)
               /\ HasAllSigningHeaders(c) <=> IsSome(client.credentials)
        /\ (/\ Started(c) /\ UrlAccepted(c)
            /\ IsSome(client.credentials)
            /\ \/ Unwrap(client.credentials).api_key = <<>>
               \/ /\ Unwrap(client.credentials).api_secret = <<>>
                  /\ HeaderValue_try_from(Unwrap(client.credentials).api_key).ok) =>
               /\ Dispatched(c)
               /\ HasAllSigningHeaders(c)
               /\ SentHeaders(c)["X-BAPI-API-KEY"] = Unwrap(client.credentials).api_key

C12_Witness ==
    \E c \in DOMAIN calls :
        /\ Dispatched(c)
        /\ IsSome(client.credentials)
        /\ Unwrap(client.credentials).api_key = <<>>
        /\ Unwrap(client.credentials).api_secret = <<>>
        /\ HasAllSigningHeaders(c)

(* ------------------------------------------------------------------- C13 *)
\* C13: a call of a client without credentials proceeds unauthenticated: it
\* never returns a local authentication or parameter error, its request is
\* dispatched (stated here for the URLs the transport accepts), and a
\* refusal by the server, an envelope with a retCode other than 0, is
\* returned as ApiError.
C13_UnauthenticatedProceeds ==
    \A c \in DOMAIN calls :
        (Started(c) /\ IsNone(client.credentials)) =>
            /\ IsNone(calls[c].signed)
            /\ IsSome(calls[c].result) =>
                   \/ Unwrap(calls[c].result).ok
                   \/ Unwrap(calls[c].result).error.kind
                          \notin {"AuthenticationError", "InvalidParameter"}
            /\ UrlAccepted(c) => calls[c].dispatches = 1
            /\ (/\ Done(c) /\ IsSome(calls[c].response)
                /\ IsEnvelope(Response(c))
                /\ RetCode(Response(c)) # 0) =>
                   calls[c].result =
                       Some(Err(ApiError(RetCode(Response(c)), RetMsg(Response(c)))))

(* ------------------------------------------------------------------- C14 *)
\* C14: every request handed to the network with a body carries
\* Content-Type: application/json, with or without credentials; a call given
\* a body sends one.
C14_ContentTypeWithBody ==
    \A c \in DOMAIN calls :
        Dispatched(c) =>
            /\ IsSome(Args(c).body) <=> IsSome(Unwrap(calls[c].sent).body)
            /\ IsSome(Unwrap(calls[c].sent).body) =>
                   /\ "Content-Type" \in DOMAIN SentHeaders(c)
                   /\ SentHeaders(c)["Content-Type"] = APPLICATION_JSON

C14_Witness ==
    \E c \in DOMAIN calls :
        /\ Dispatched(c)
        /\ IsNone(client.credentials)
        /\ IsSome(Unwrap(calls[c].sent).body)
        /\ SentHeaders(c)["Content-Type"] = APPLICATION_JSON


(* ------------------------------------------------ the signer's invocations *)
\* the last invocation of generate_signature, and an earlier one
Cur == Unwrap(signer.cur)

Prev == Unwrap(signer.prev)

\* what the MAC of a signature was computed over, and under which key
MacMessage(sig) == sig.hex_of.hmac_msg

MacKey(sig) == sig.hex_of.hmac_key

RECURSIVE NumDigits(_)
\* the number of decimal digits of a natural number
NumDigits(n) == IF n < 10 THEN 1 ELSE 1 + NumDigits(n \div 10)

SignerFields == {"timestamp", "api_key", "recv_window", "payload", "secret"}

MessageFields == SignerFields \ {"secret"}

\* the inputs on which two invocations differ
Differing(a, b) == {f \in SignerFields : a[f] # b[f]}

\* equal once the shorter is extended with zero bytes
EqualZeroPadded(a, b) ==
    LET short == IF Len(a) <= Len(b) THEN a ELSE b
        long == IF Len(a) <= Len(b) THEN b ELSE a
    IN  /\ SubSeq(long, 1, Len(short)) = short
        /\ \A i \in (Len(short) + 1)..Len(long) : long[i] = NUL

(* ------------------------------------------------------------------- C15 *)
\* C15: canonical message.  The text a generate_signature call authenticates
\* reads, from left to right and with nothing in between or after, as the
\* decimal timestamp, the api_key, the decimal recv_window and the payload;
\* the MAC key is the secret (followed by zero bytes only) and the secret
\* takes no other part.
C15_CanonicalMessage ==
    IsSome(signer.cur) =>
        LET m == MacMessage(Cur.signature)
            k == MacKey(Cur.signature)
            a == NumDigits(Cur.timestamp)
            b == a + Len(Cur.api_key)
            c == b + NumDigits(Cur.recv_window)
        IN  /\ Len(m) = c + Len(Cur.payload)
            /\ DecimalValue(SubSeq(m, 1, a)) = Cur.timestamp
            /\ SubSeq(m, a + 1, b) = Cur.api_key
            /\ DecimalValue(SubSeq(m, b + 1, c)) = Cur.recv_window
            /\ SubSeq(m, c + 1, Len(m)) = Cur.payload
            /\ SubSeq(k, 1, Len(Cur.secret)) = Cur.secret
            /\ \A i \in (Len(Cur.secret) + 1)..Len(k) : k[i] = NUL

C15_Witness ==
    /\ IsSome(signer.cur)
    /\ Cur.timestamp = 12
    /\ Cur.api_key = <<"2", "k">>
    /\ Cur.recv_window = RECV_WINDOW
    /\ Cur.payload = <<"a">>
    /\ MacMessage(Cur.signature)
         = <<"1", "2", "2", "k", "5", "0", "0", "0", "a">>

C17_Format ==
    IsSome(signer.hex) =>
        /\ Len(Unwrap(signer.hex)) = 64
        /\ \A i \in 1..Len(Unwrap(signer.hex)) :
               Unwrap(signer.hex)[i] \in
                   {"0", "1", "2", "3", "4", "5", "6", "7", "8", "9",
                    "a", "b", "c", "d", "e", "f"}

C17_Witness ==
    /\ IsSome(signer.hex)
    /\ Cur.payload = <<>>
    /\ Len(Unwrap(signer.hex)) = 64
    /\ \E i \in 1..64 : Unwrap(signer.hex)[i] = "f"

(* ------------------------------------------------------------------- C18 *)
\* C18 as stated: two generate_signature calls that differ in exactly one
\* of the five inputs returned different signatures.
C18_AnySingleChange ==
    (IsSome(signer.prev) /\ IsSome(signer.cur)
        /\ Cardinality(Differing(Prev, Cur)) = 1)
        => Prev.signature # Cur.signature

\* C18: sensitivity.  Two generate_signature calls that differ in exactly
\* one of timestamp, api_key, recv_window and payload authenticated different
\* messages and returned different signatures (HMAC-SHA256 taken as free of
\* collisions); two that differ in the secret alone returned equal signatures
\* exactly when the secrets are equal once padded with zero bytes.
C18_SingleChange ==
    (IsSome(signer.prev) /\ IsSome(signer.cur)
        /\ Cardinality(Differing(Prev, Cur)) = 1)
        => IF Differing(Prev, Cur) \subseteq MessageFields
           THEN /\ MacMessage(Prev.signature) # MacMessage(Cur.signature)
                /\ Prev.signature # Cur.signature
           ELSE (Prev.signature = Cur.signature)
                    <=> EqualZeroPadded(Prev.secret, Cur.secret)

C18_Witness ==
    /\ IsSome(signer.prev) /\ IsSome(signer.cur)
    /\ Differing(Prev, Cur) = {"payload"}
    /\ Prev.payload = <<"a">> /\ Cur.payload = <<"b">>
    /\ Prev.signature # Cur.signature


(* ------------------------------------------------------------------- C19 *)
\* C19: fresh timestamp per call.  A call that starts on a client with
\* credentials signs, in the step in which it starts and hands its request
\* over, the clock's value of that moment; the signed timestamp stays with
\* the call until it returns, and the client has no field to keep one in.
C19_FreshTimestamp ==
    [][\A c \in DOMAIN calls :
        /\ (calls[c].pc = "idle" /\ calls'[c].pc # "idle")
              => /\ IsSome(client.credentials) <=> IsSome(calls'[c].signed)
                 /\ IsSome(calls'[c].signed)
                      => Unwrap(calls'[c].signed).timestamp = now
        /\ (calls[c].pc # "idle" /\ calls'[c].pc # "idle")
              => calls'[c].signed = calls[c].signed
        /\ DOMAIN client' = {"base_url", "credentials"}]_vars

C19_Witness ==
    \E c \in DOMAIN calls :
        /\ calls[c].pc = "text"
        /\ Signed(c)
        /\ now = MaxTime
        /\ Unwrap(calls[c].signed).timestamp = MaxTime

(* ------------------------------------------------------------------- C20 *)
\* C20: no call mutates the client.  No step of a get or post call, from
\* its start to its return and whatever it returns, changes the client's
\* base_url or credentials.
C20_ClientUnchanged ==
    [][(\E c \in DOMAIN calls : calls'[c] # calls[c])
          => /\ client'.base_url = client.base_url
             /\ client'.credentials = client.credentials]_vars

C20_Witness ==
    \E c \in DOMAIN calls :
        /\ Done(c)
        /\ IsSome(client.credentials)
        /\ calls[c].result = Some(Err(SerializationError))


(* ------------------------------------------------------------------- C21 *)
\* C21: isolation of concurrent calls.  With several calls in flight on one
\* client, a step of one call changes nothing of another; what a call signs
\* and sends is what its own arguments and the clock at its own start give;
\* these stay as they are until it returns; and what it returns is decoded
\* from the response it read itself, as its own result type.
C21_Isolation ==
    [][\A c \in DOMAIN calls :
        (calls'[c] # calls[c]) =>
            /\ \A d \in DOMAIN calls \ {c} : calls'[d] = calls[d]
            /\ (calls[c].pc = "idle") =>
                  LET a == Unwrap(calls'[c].args)
                      own == request_build(client, a.method, a.path, a.query,
                                           a.body, now)
                  IN  /\ calls'[c].signed = own.signed
                      /\ IsSome(calls'[c].sent) => Unwrap(calls'[c].sent) = own.builder
                      /\ IsSome(calls'[c].sent) =>
                            Unwrap(calls'[c].sent).url = client.base_url \o a.path
            /\ (calls[c].pc # "idle" /\ calls'[c].pc # "idle") =>
                  /\ calls'[c].args = calls[c].args
                  /\ calls'[c].signed = calls[c].signed
                  /\ calls'[c].sent = calls[c].sent
            /\ (calls[c].pc = "text" /\ IsSome(calls'[c].response)) =>
                  calls'[c].result =
                      Some(decode_response(Unwrap(calls[c].args).T,
                                           Unwrap(calls'[c].response)))]_vars

\* two calls in flight that differ in what they signed, sent and read
C21_Witness ==
    \E c, d \in DOMAIN calls :
        /\ c # d
        /\ Done(c) /\ Done(d)
        /\ Signed(c) /\ Signed(d)
        /\ Unwrap(calls[c].signed).timestamp # Unwrap(calls[d].signed).timestamp
        /\ Args(c).method = "GET" /\ Args(d).method = "POST"
        /\ Args(c).path # Args(d).path
        /\ IsSome(calls[c].response) /\ IsSome(calls[d].response)
        /\ calls[c].response # calls[d].response
        /\ calls[c].result # calls[d].result


C23_Construction ==
    [][/\ testnet.base_url =
             <<"h","t","t","p","s",":","/","/","a","p","i","-",
               "t","e","s","t","n","e","t",".","b","y","b","i","t",".","c","o","m">>
       /\ mainnet.base_url =
             <<"h","t","t","p","s",":","/","/","a","p","i",".",
               "b","y","b","i","t",".","c","o","m">>
       /\ testnet.credentials = <<>> /\ mainnet.credentials = <<>>
       /\ \A k \in ApiKeys, s \in ApiSecrets :
             WithCredentials(k, s) =>
                 /\ Len(client'.credentials) = 1
                 /\ client'.credentials[1].api_key = k
                 /\ client'.credentials[1].api_secret = s
                 /\ client'.base_url = client.base_url
                 /\ DOMAIN client' = DOMAIN client]_vars

C23_Witness ==
    /\ client.base_url = testnet.base_url
    /\ Len(client.credentials) = 1
    /\ client.credentials[1].api_key = <<"k","e","y">>
    /\ client.credentials[1].api_secret = <<"s","e","c">>
    /\ \A c \in DOMAIN calls : calls[c].pc = "idle"


(* ------------------------------------------------ the builder's chain *)
\* the builder as build() received it, and what build() did
Chain == Unwrap(order.builder)

Built == Unwrap(order.built)

\* the text holds the pattern
Contains(text, pat) ==
    \E i \in 1..(Len(text) - Len(pat) + 1) : SubSeq(text, i, i + Len(pat) - 1) = pat

\* a key as it stands in JSON text
KeyText(key) == <<"\"">> \o key \o <<"\"", ":">>

(* ------------------------------------------------------------------- C24 *)
\* C24: the builder validates at build() only.  No setter ends the chain;
\* build() yields a request exactly when symbol, side and order_type were
\* set, and otherwise fails with the message of the first of the three, in
\* that order, that was not; the request of a chain that never set category
\* has category "linear".
C24_BuildValidates ==
    /\ IsNone(order.builder) => IsNone(order.built)
    /\ IsSome(order.built) =>
          LET missing == SelectSeq(<<"symbol", "side", "order_type">>,
                                   LAMBDA f : Chain[f] = <<>>)
              message == [symbol |-> "symbol is required",
                          side |-> "side is required",
                          order_type |-> "order_type is required"]
          IN  /\ Built.ok <=> missing = <<>>
              /\ ~Built.ok => Built.panic = message[Head(missing)]
              /\ (Built.ok /\ Chain["category"] = <<>>) =>
                    Built.value["category"] = <<"l","i","n","e","a","r">>

C24_Witness ==
    /\ IsSome(order.built)
    /\ ~Built.ok
    /\ Built.panic = "side is required"
    /\ Chain["symbol"] # <<>>
    /\ Chain["order_type"] = <<>>
    /\ Chain["category"] # <<>>

(* ------------------------------------------------------------------- C25 *)
\* C25: the builder starts with every field unset; a setter call leaves its
\* own field holding the value given and every other field as it was; a
\* successful build() hands every field over as the chain left it (so each
\* field holds the value of the last setter call for it, and an optional
\* field never set is None).
C25_LastSetterWins ==
    [][/\ (IsNone(order.builder) /\ IsSome(order'.builder)) =>
             \A f \in FieldNames : Unwrap(order'.builder)[f] = <<>>
       /\ \A name \in FieldNames : \A value \in SetterValues(name) :
             OrderSet(name, value) =>
                 /\ Unwrap(order'.builder)[name] = <<value>>
                 /\ \A f \in FieldNames \ {name} :
                        Unwrap(order'.builder)[f] = Chain[f]
       /\ (IsNone(order.built) /\ IsSome(order'.built) /\ Unwrap(order'.built).ok) =>
             /\ order'.builder = order.builder
             /\ \A f \in FieldNames :
                   LET x == Unwrap(order'.built).value[f]
                   IN  IF FieldOf(f).optional THEN x = Chain[f]
                       ELSE Chain[f] # <<>> => x = Chain[f][1]]_vars

C25_Witness ==
    /\ IsSome(order.built) /\ Built.ok
    /\ Built.value["category"] = <<"s","p","o","t">>
    /\ Built.value["side"] = <<"S","e","l","l">>
    /\ Built.value["price"] = <<<<"1">>>>
    /\ Built.value["trigger_price"] = <<>>
    /\ Built.value["reduce_only"] = <<FALSE>>
    /\ Built.value["qty"] = <<>>

(* ------------------------------------------------------------------- C26 *)
\* C26: the JSON text of a CreateOrderRequest holds the key of an optional
\* field exactly when the field is Some, and always holds the keys category,
\* symbol, side and orderType.
C26_OptionalKeys ==
    IsSome(order.json) =>
        /\ \A i \in DOMAIN OrderFields :
              Contains(Unwrap(order.json), KeyText(OrderFields[i].key))
                  <=> (~OrderFields[i].optional
                          \/ Built.value[OrderFields[i].name] # <<>>)
        /\ \A key \in {<<"c","a","t","e","g","o","r","y">>, <<"s","y","m","b","o","l">>,
                       <<"s","i","d","e">>, <<"o","r","d","e","r","T","y","p","e">>} :
              Contains(Unwrap(order.json), KeyText(key))

C26_Witness ==
    /\ IsSome(order.json)
    /\ Built.value["reduce_only"] = <<FALSE>>
    /\ Built.value["trigger_direction"] = <<1>>
    /\ Built.value["qty"] = <<>>
    /\ Contains(Unwrap(order.json),
                <<"\"","r","e","d","u","c","e","O","n","l","y","\"",":","f","a","l","s","e">>)
    /\ ~Contains(Unwrap(order.json), <<"\"","q","t","y","\"">>)


(* ------------------------------------------------------------------- C27 *)
\* the lower-case form of a letter
LowerCase(ch) ==
    CASE ch = "L" -> "l" [] ch = "I" -> "i" [] ch = "S" -> "s" [] ch = "O" -> "o"
      [] OTHER -> ch

\* C27: wire-enum round trip.  A variant is serialized as the JSON string of
\* its wire name, which for Category is the variant's name in lower case and
\* for Side, OrderType, TimeInForce and OrderStatus the variant's name
\* (Category::Linear is "linear", Side::Buy is "Buy"); the text one variant
\* was serialized to deserializes, as the same enum, to that variant and to
\* no other.
C27_WireRoundTrip ==
    /\ IsSome(wire.ser) =>
          LET g == Unwrap(wire.ser)
              name == IF g.enum = "Category"
                      THEN [i \in 1..Len(g.variant) |-> LowerCase(g.variant[i])]
                      ELSE g.variant
          IN  /\ g.json = <<"\"">> \o name \o <<"\"">>
              /\ (g.enum = "Category" /\ g.variant = <<"L","i","n","e","a","r">>)
                    => g.json = <<"\"","l","i","n","e","a","r","\"">>
              /\ (g.enum = "Side" /\ g.variant = <<"B","u","y">>)
                    => g.json = <<"\"","B","u","y","\"">>
    /\ (IsSome(wire.ser) /\ IsSome(wire.de)
            /\ Unwrap(wire.de).enum = Unwrap(wire.ser).enum
            /\ Unwrap(wire.de).json = Unwrap(wire.ser).json)
          => Unwrap(wire.de).result = Ok(Unwrap(wire.ser).variant)

C27_Witness ==
    /\ IsSome(wire.ser) /\ IsSome(wire.de)
    /\ Unwrap(wire.ser).enum = "Category"
    /\ Unwrap(wire.ser).variant = <<"O","p","t","i","o","n">>
    /\ Unwrap(wire.de).enum = "Category"
    /\ Unwrap(wire.de).json = <<"\"","o","p","t","i","o","n","\"">>
    /\ Unwrap(wire.de).result = Ok(<<"O","p","t","i","o","n">>)


(* ------------------------------------------------------------------- C28 *)
\* C28: an error returned by a call is a RequestError, a SerializationError,
\* an ApiError or an InvalidParameter, never one of the other five kinds of
\* BybitError; and it is InvalidParameter exactly when the client's api_key
\* cannot stand in a header.
C28_FourErrorKinds ==
    \A c \in DOMAIN calls :
        (Done(c) /\ ~Unwrap(calls[c].result).ok) =>
            LET kind == Unwrap(calls[c].result).error.kind
                badKey == /\ client.credentials # <<>>
                          /\ \E i \in 1..Len(client.credentials[1].api_key) :
                                 client.credentials[1].api_key[i] \in {"\n", "\r"}
            IN  /\ kind \in {"RequestError", "SerializationError", "ApiError",
                             "InvalidParameter"}
                /\ kind \notin {"AuthenticationError", "InvalidTimestamp",
                                "RateLimitExceeded", "InvalidEnumValue",
                                "MissingRequiredField"}
                /\ badKey <=> kind = "InvalidParameter"

C28_Witness ==
    \E c \in DOMAIN calls :
        /\ Done(c)
        /\ IsNone(calls[c].sent)
        /\ client.credentials # <<>>
        /\ client.credentials[1].api_key = <<"k", "\n", "y">>
        /\ Unwrap(calls[c].result).error.kind = "InvalidParameter"


(* ------------------------------------------------------------------- C29 *)
\* C29: the signature does not depend on the path.  Two authenticated calls
\* on one client with the same method, the same query and body and the same
\* timestamp, sent to whatever paths, carry the same X-BAPI-SIGN.
C29_PathNotSigned ==
    \A c, d \in DOMAIN calls :
        (/\ Signed(c) /\ Signed(d) /\ Dispatched(c) /\ Dispatched(d)
         /\ Args(c).method = Args(d).method
         /\ Args(c).query = Args(d).query
         /\ Args(c).body = Args(d).body
         /\ Unwrap(calls[c].signed).timestamp = Unwrap(calls[d].signed).timestamp)
            => SentHeaders(c)["X-BAPI-SIGN"] = SentHeaders(d)["X-BAPI-SIGN"]

C29_Witness ==
    \E c, d \in DOMAIN calls :
        /\ Signed(c) /\ Signed(d) /\ Dispatched(c) /\ Dispatched(d)
        /\ Args(c).path = V5_MARKET_TIME /\ Args(d).path = V5_ORDER_CREATE
        /\ Unwrap(calls[c].sent).url # Unwrap(calls[d].sent).url
        /\ Args(c).method = "POST" /\ Args(d).method = "POST"
        /\ IsSome(Args(c).body) /\ Args(c).body = Args(d).body
        /\ Unwrap(calls[c].signed).timestamp = Unwrap(calls[d].signed).timestamp
        /\ SentHeaders(c)["X-BAPI-SIGN"] = SentHeaders(d)["X-BAPI-SIGN"]


(* ------------------------------------------------------------------- C30 *)
\* the message fields on which two invocations differ
MessageDiffering(a, b) == Differing(a, b) \cap MessageFields

\* the decimal timestamps, the api_keys and the decimal recv_windows of two
\* invocations have pairwise the same length
Aligned(a, b) ==
    /\ NumDigits(a.timestamp) = NumDigits(b.timestamp)
    /\ Len(a.api_key) = Len(b.api_key)
    /\ NumDigits(a.recv_window) = NumDigits(b.recv_window)

\* C30 as stated: two generate_signature calls whose (timestamp, api_key,
\* recv_window, payload) differ in any way authenticated different messages.
C30_Injective ==
    (IsSome(signer.prev) /\ IsSome(signer.cur)
        /\ MessageDiffering(Prev, Cur) # {})
        => MacMessage(Prev.signature) # MacMessage(Cur.signature)

\* C30: two generate_signature calls whose (timestamp, api_key, recv_window,
\* payload) differ authenticated different messages when they differ in one
\* field only, or when their decimal timestamps, their api_keys and their
\* decimal recv_windows have pairwise the same length.
C30_InjectiveWhenAligned ==
    (IsSome(signer.prev) /\ IsSome(signer.cur)
        /\ MessageDiffering(Prev, Cur) # {}
        /\ (Cardinality(MessageDiffering(Prev, Cur)) = 1 \/ Aligned(Prev, Cur)))
        => MacMessage(Prev.signature) # MacMessage(Cur.signature)

C30_Witness ==
    /\ IsSome(signer.prev) /\ IsSome(signer.cur)
    /\ MessageDiffering(Prev, Cur) = {"recv_window", "payload"}
    /\ Aligned(Prev, Cur)
    /\ Prev.timestamp = 12
    /\ MacMessage(Prev.signature) # MacMessage(Cur.signature)

====
